---------------------------- MODULE Spec2Model ----------------------------
(***************************************************************************)
(* RouterOS-Blocklist-Sync (src/main.go): the escalation engine.           *)
(*                                                                         *)
(* A run of the program (main) reads config.env, loads state.json, reads   *)
(* the CSV of attacker addresses, dials the router, walks the addresses    *)
(* (sanitizeIP, isWhitelisted, state[ip]++, getTimeout, RunArgs) and       *)
(* finally rewrites state.json.  Runs are launched from cron; a run is a   *)
(* process of Procs, and state.json and the router are shared.             *)
(*                                                                         *)
(* Text is modelled at the level the code inspects it: a CSV line is a     *)
(* sequence of pieces (a quote, a comma, a space, a slash, or a word that  *)
(* holds none); net.ParseIP, net.ParseCIDR and IP.String are library       *)
(* functions, given by their values on the words the model uses.           *)
(* state.json is its JSON text, written by json.MarshalIndent and read by  *)
(* json.Unmarshal, a number being its characters.                          *)
(* os.WriteFile in saveState is taken to succeed (the code discards its    *)
(* error); every other I/O failure the code looks at is modelled.          *)
(***************************************************************************)
EXTENDS Integers, Sequences, FiniteSets, TLC

(***************************************************************************)
(* Bounds of the model.                                                    *)
(***************************************************************************)
MaxLines == 2      \* data lines of a CSV file (after the header)
MaxRuns == 2       \* program runs in one behaviour
MaxSchedule == 3   \* entries of an escalation schedule given to getTimeout alone
MaxCount == 5      \* largest count given to getTimeout alone

Procs == {"r1", "r2"}

(***************************************************************************)
(* Text pieces.                                                            *)
(***************************************************************************)
QUOTE == "\""
COMMA == ","
SPACE == " "
SLASH == "/"

(***************************************************************************)
(* net.ParseIP on the words of the model: the 4 bytes of an IPv4 address   *)
(* (also of an IPv4-mapped IPv6 literal, which IP.To4 turns into them), or *)
(* <<>> for nil.  Any other word is no IP literal.                         *)
(***************************************************************************)
ParseIP(word) ==
    CASE word = "203.0.113.25" -> <<203, 0, 113, 25>>
      [] word = "198.51.100.50" -> <<198, 51, 100, 50>>
      [] word = "::ffff:198.51.100.50" -> <<198, 51, 100, 50>>
      [] word = "192.168.1.50" -> <<192, 168, 1, 50>>
      [] word = "192.168.1.0" -> <<192, 168, 1, 0>>
      [] word = "198.51.100.0" -> <<198, 51, 100, 0>>
      [] word = "8.8.8.8" -> <<8, 8, 8, 8>>
      [] OTHER -> <<>>

\* IP.String of an IPv4 address: dotted decimal.
IPString(ip) ==
    ToString(ip[1]) \o "." \o ToString(ip[2]) \o "." \o ToString(ip[3])
        \o "." \o ToString(ip[4])

(***************************************************************************)
(* net.ParseCIDR on an entry <<address, "/", prefix length>>: the network  *)
(* and its prefix length, or ok = FALSE for an error.  The address is      *)
(* kept unmasked: CIDRContains compares the masked bits only.              *)
(***************************************************************************)
ParseBits(word) ==
    CASE word = "0" -> 0
      [] word = "8" -> 8
      [] word = "24" -> 24
      [] word = "27" -> 27
      [] word = "33" -> 33
      [] OTHER -> -1

ParseCIDR(entry) ==
    IF /\ Len(entry) = 3
       /\ entry[2] = SLASH
       /\ ParseIP(entry[1]) # <<>>
       /\ ParseBits(entry[3]) \in 0..32
    THEN [ok |-> TRUE, ip |-> ParseIP(entry[1]), bits |-> ParseBits(entry[3])]
    ELSE [ok |-> FALSE, ip |-> <<>>, bits |-> 0]

RECURSIVE Pow2(_)
Pow2(n) == IF n = 0 THEN 1 ELSE 2 * Pow2(n - 1)

\* The number of bits of byte k (1..4) that a prefix of `bits` bits covers.
MaskBits(bits, k) ==
    LET left == bits - 8 * (k - 1)
    IN  IF left <= 0 THEN 0 ELSE IF left >= 8 THEN 8 ELSE left

\* IPNet.Contains: ip and the network agree on every masked bit.
CIDRContains(net, ip) ==
    /\ Len(ip) = Len(net.ip)
    /\ \A k \in 1..Len(ip) :
          ip[k] \div Pow2(8 - MaskBits(net.bits, k))
              = net.ip[k] \div Pow2(8 - MaskBits(net.bits, k))

(***************************************************************************)
(* strings.Trim(s, cutset) and strings.TrimSpace on a sequence of pieces,  *)
(* strings.Contains(s, ",") and strings.Split(s, ",")[0].                  *)
(***************************************************************************)
RECURSIVE TrimLeft(_, _)
TrimLeft(s, c) ==
    IF s # <<>> /\ Head(s) = c THEN TrimLeft(Tail(s), c) ELSE s

RECURSIVE TrimRight(_, _)
TrimRight(s, c) ==
    IF s # <<>> /\ s[Len(s)] = c THEN TrimRight(SubSeq(s, 1, Len(s) - 1), c) ELSE s

Trim(s, c) == TrimRight(TrimLeft(s, c), c)

TrimSpace(s) == Trim(s, SPACE)

Contains(s, c) == \E k \in 1..Len(s) : s[k] = c

RECURSIVE BeforeFirst(_, _)
BeforeFirst(s, c) ==
    IF s = <<>> \/ Head(s) = c THEN <<>> ELSE <<Head(s)>> \o BeforeFirst(Tail(s), c)

(***************************************************************************)
(* sanitizeIP: "" for an invalid token, else the canonical address.        *)
(***************************************************************************)
sanitizeIP(raw) ==
    LET unquoted == Trim(raw, QUOTE)
        first == IF Contains(unquoted, COMMA) THEN BeforeFirst(unquoted, COMMA)
                 ELSE unquoted
        text == TrimSpace(first)
        ip == IF Len(text) = 1 THEN ParseIP(text[1]) ELSE <<>>
    IN  IF ip = <<>> THEN "" ELSE IPString(ip)

(***************************************************************************)
(* isWhitelisted: the loop over the whitelist entries.  ip is a canonical  *)
(* address (a string), an entry a sequence of pieces.                      *)
(***************************************************************************)
RECURSIVE WhitelistLoop(_, _)
WhitelistLoop(ip, wl) ==
    IF wl = <<>> THEN FALSE
    ELSE LET entry == TrimSpace(Head(wl))
         IN  IF ~Contains(entry, SLASH)
             THEN IF entry = <<ip>> THEN TRUE ELSE WhitelistLoop(ip, Tail(wl))
             ELSE IF ParseCIDR(entry).ok /\ CIDRContains(ParseCIDR(entry), ParseIP(ip))
                  THEN TRUE
                  ELSE WhitelistLoop(ip, Tail(wl))

\* isWhitelisted that compares whole entries only (no CIDR networks).
isWhitelistedExact(ip, wl) ==
    \E k \in 1..Len(wl) : TrimSpace(wl[k]) = <<ip>>

isWhitelisted(ip, wl) ==
    IF ParseIP(ip) = <<>> THEN FALSE ELSE WhitelistLoop(ip, wl)

(***************************************************************************)
(* The offense record: a Go map[string]int, which may be nil.  A missing   *)
(* key reads as 0.                                                         *)
(***************************************************************************)
EmptyMap == [a \in {} |-> 0]

NilState == [nil |-> TRUE, m |-> EmptyMap]

MakeState(m) == [nil |-> FALSE, m |-> m]

Lookup(m, a) == IF a \in DOMAIN m THEN m[a] ELSE 0

Put(m, a, v) == [x \in DOMAIN m \cup {a} |-> IF x = a THEN v ELSE m[x]]

\* The outcomes recorded for an address (none yet: the empty sequence).
Lookup2(m, a) == IF a \in DOMAIN m THEN m[a] ELSE <<>>

(***************************************************************************)
(* The text of state.json, in pieces: braces, quotes around a key, a       *)
(* colon, the characters of a number, commas, and white space.             *)
(***************************************************************************)
LBRACE == "{"
RBRACE == "}"
COLON == ":"
NEWLINE == "\n"
INDENT == "  "
MINUS == "-"
NULL == "null"

Digits == <<"0", "1", "2", "3", "4", "5", "6", "7", "8", "9">>

\* strconv.AppendInt, base 10, for n >= 0.
RECURSIVE FormatBits(_)
FormatBits(n) ==
    IF n < 10 THEN <<Digits[n + 1]>>
    ELSE Append(FormatBits(n \div 10), Digits[(n % 10) + 1])

\* An encoder that writes the magnitude only.
FormatIntUnsigned(n) == IF n < 0 THEN FormatBits(-n) ELSE FormatBits(n)

\* The characters encoding/json writes for an int.
FormatInt(n) == IF n < 0 THEN <<MINUS>> \o FormatBits(-n) ELSE FormatBits(n)

\* The keys the model's addresses can give a map, in the order of their
\* bytes: encoding/json writes the keys of a map sorted.
KeyOrder == <<"192.168.1.50", "198.51.100.50", "203.0.113.25">>

SortedKeys(m) ==
    LET Held(k) == k \in DOMAIN m
    IN  SelectSeq(KeyOrder, Held)

RECURSIVE MarshalMembers(_, _)
MarshalMembers(keys, m) ==
    IF keys = <<>> THEN <<>>
    ELSE <<NEWLINE, INDENT, QUOTE, Head(keys), QUOTE, COLON, SPACE>>
            \o FormatInt(m[Head(keys)])
            \o (IF Len(keys) > 1 THEN <<COMMA>> ELSE <<>>)
            \o MarshalMembers(Tail(keys), m)

\* json.MarshalIndent(s, "", "  ") of a map[string]int: null for a nil map.
MarshalIndent(s) ==
    IF s.nil THEN <<NULL>>
    ELSE IF DOMAIN s.m = {} THEN <<LBRACE, RBRACE>>
    ELSE <<LBRACE>> \o MarshalMembers(SortedKeys(s.m), s.m) \o <<NEWLINE, RBRACE>>

\* A JSON number that fits an int: its value, or ok = FALSE.
RECURSIVE ParseDigits(_, _)
ParseDigits(text, n) ==
    IF text = <<>> THEN [ok |-> TRUE, n |-> n]
    ELSE IF \E d \in 0..9 : Digits[d + 1] = Head(text)
         THEN ParseDigits(Tail(text),
                          10 * n + (CHOOSE d \in 0..9 : Digits[d + 1] = Head(text)))
         ELSE [ok |-> FALSE, n |-> 0]

ParseInt(text) ==
    LET neg == text # <<>> /\ Head(text) = MINUS
        body == IF neg THEN Tail(text) ELSE text
        v == ParseDigits(body, 0)
    IN  IF body = <<>> \/ (Len(body) > 1 /\ Head(body) = "0") \/ ~v.ok
        THEN [ok |-> FALSE, n |-> 0]
        ELSE [ok |-> TRUE, n |-> IF neg THEN -v.n ELSE v.n]

\* The members of a JSON object ("key": number, ...) put into the map m.
RECURSIVE UnmarshalMembers(_, _)
UnmarshalMembers(text, m) ==
    IF Len(text) < 5 \/ text[1] # QUOTE \/ text[3] # QUOTE \/ text[4] # COLON
    THEN [ok |-> FALSE, m |-> m]
    ELSE LET rest == SubSeq(text, 5, Len(text))
             number == BeforeFirst(rest, COMMA)
             v == ParseInt(number)
         IN  IF ~v.ok THEN [ok |-> FALSE, m |-> m]
             ELSE IF Len(number) = Len(rest)
             THEN [ok |-> TRUE, m |-> Put(m, text[2], v.n)]
             ELSE UnmarshalMembers(SubSeq(rest, Len(number) + 2, Len(rest)),
                                   Put(m, text[2], v.n))

\* json.Unmarshal(data, &s) for a nil map s: the map s is afterwards.  null
\* leaves it nil, an object makes a map of its members, and data that is
\* no JSON is an error that leaves it nil.
Unmarshal(data) ==
    LET Inked(c) == c \notin {SPACE, NEWLINE, INDENT}
        text == SelectSeq(data, Inked)
        members == UnmarshalMembers(SubSeq(text, 2, Len(text) - 1), EmptyMap)
    IN  IF text = <<NULL>> THEN NilState
        ELSE IF Len(text) < 2 \/ text[1] # LBRACE \/ text[Len(text)] # RBRACE
        THEN NilState
        ELSE IF Len(text) = 2 THEN MakeState(EmptyMap)
        ELSE IF members.ok THEN MakeState(members.m)
        ELSE NilState

(***************************************************************************)
(* state.json as os.ReadFile sees it: absent, unreadable (another error),  *)
(* or a file with its text.                                                *)
(***************************************************************************)
FileOf(kind, data) == [kind |-> kind, data |-> data]

loadState(file) ==
    CASE file.kind = "absent" -> MakeState(EmptyMap)
      [] file.kind = "unreadable" -> NilState
      [] file.kind = "file" -> Unmarshal(file.data)

\* saveState that writes an empty object.
saveStateEmpty(s) ==
    IF s.nil THEN FileOf("file", <<NULL>>) ELSE FileOf("file", <<LBRACE, RBRACE>>)

\* saveState: the text of the map replaces the file's.
saveState(s) == FileOf("file", MarshalIndent(s))

(***************************************************************************)
(* getTimeout.  fmt.Sprintf("%02d", h) pads with zeros to a width of two,  *)
(* the sign included.  hours[count-1] with count <= 0 is an index out of   *)
(* range: the run panics.                                                  *)
(***************************************************************************)
Sprintf02d(h) == IF 0 <= h /\ h < 10 THEN "0" \o ToString(h) ELSE ToString(h)

INDEX_PANIC == "panic: index out of range"

PERMANENT == "0"

\* getTimeout with "%d" for "%02d".
getTimeoutUnpadded(count, hours) ==
    IF count <= Len(hours)
    THEN IF count - 1 < 0 THEN INDEX_PANIC
         ELSE ToString(hours[count]) \o ":00:00"
    ELSE PERMANENT

\* getTimeout that gives the timeout as a number of seconds.
getTimeoutSeconds(count, hours) ==
    IF count <= Len(hours)
    THEN IF count - 1 < 0 THEN INDEX_PANIC
         ELSE ToString(3600 * hours[count])
    ELSE PERMANENT

\* getTimeout with count < len(hours) for count <= len(hours).
getTimeoutEarly(count, hours) ==
    IF count < Len(hours)
    THEN IF count - 1 < 0 THEN INDEX_PANIC
         ELSE Sprintf02d(hours[count]) \o ":00:00"
    ELSE PERMANENT

\* getTimeout that repeats the last tier once the schedule is used up.
getTimeoutClamped(count, hours) ==
    IF count <= Len(hours)
    THEN IF count - 1 < 0 THEN INDEX_PANIC
         ELSE Sprintf02d(hours[count]) \o ":00:00"
    ELSE IF hours = <<>> THEN PERMANENT
         ELSE Sprintf02d(hours[Len(hours)]) \o ":00:00"

getTimeout(count, hours) ==
    IF count <= Len(hours)
    THEN IF count - 1 < 0 THEN INDEX_PANIC
         ELSE Sprintf02d(hours[count]) \o ":00:00"
    ELSE PERMANENT

(***************************************************************************)
(* loadIPsFromCSV on a readable file: the lines after the header, trimmed  *)
(* of spaces and quotes, the empty ones dropped.                           *)
(***************************************************************************)
RECURSIVE ScanLines(_, _)
ScanLines(lines, line) ==
    IF lines = <<>> THEN <<>>
    ELSE LET v == Trim(TrimSpace(Head(lines)), QUOTE)
         IN  IF line = 0 THEN ScanLines(Tail(lines), line + 1)
             ELSE (IF v # <<>> THEN <<v>> ELSE <<>>) \o ScanLines(Tail(lines), line + 1)

loadIPsFromCSV(lines) == ScanLines(lines, 0)

(***************************************************************************)
(* The environment of the runs: config.env as loadConfig resolves it, the  *)
(* state.json found by the first run, and the CSV files.                   *)
(***************************************************************************)
AddrA == "203.0.113.25"
AddrB == "198.51.100.50"
AddrW == "192.168.1.50"

Configs ==
    { [Escalation |-> <<1, 3, 7>>,
       Whitelist |-> << <<"8.8.8.8">>, <<"192.168.1.0", SLASH, "24">> >>,
       ListTemp |-> "blocked_attackers", ListPerm |-> "blocked_permanent"],
      [Escalation |-> <<12>>,
       Whitelist |-> << <<"bad", SLASH, "cidr">>, <<"192.168.1.50">> >>,
       ListTemp |-> "blocked_attackers", ListPerm |-> "blocked_permanent"],
      [Escalation |-> <<>>,
       Whitelist |-> << <<SPACE, "198.51.100.0", SLASH, "33">>, <<SPACE, "192.168.1.50">> >>,
       ListTemp |-> "blocked_attackers", ListPerm |-> "blocked_permanent"] }

\* A text that is no JSON.
NotJSON == <<"not json">>

InitFiles ==
    { FileOf("absent", <<>>),
      FileOf("unreadable", <<>>),
      FileOf("file", NotJSON),
      FileOf("file", <<LBRACE, RBRACE>>),
      FileOf("file", <<LBRACE, NEWLINE, INDENT, QUOTE, AddrA, QUOTE, COLON, SPACE, "3",
                       NEWLINE, RBRACE>>),
      FileOf("file", <<LBRACE, NEWLINE, INDENT, QUOTE, AddrB, QUOTE, COLON, SPACE,
                       MINUS, "1", COMMA, NEWLINE, INDENT, QUOTE, AddrA, QUOTE, COLON,
                       SPACE, "1", NEWLINE, RBRACE>>) }

CSVLines ==
    { <<"203.0.113.25">>,
      <<QUOTE, SPACE, "::ffff:198.51.100.50", COMMA, "extra", QUOTE>>,
      <<"192.168.1.50">>,
      <<"not-an-ip">>,
      <<QUOTE, QUOTE>> }

Header == <<"src_ip">>

RECURSIVE SeqsUpTo(_, _)
SeqsUpTo(S, n) ==
    IF n = 0 THEN {<<>>}
    ELSE LET shorter == SeqsUpTo(S, n - 1)
         IN  shorter \cup {Append(q, x) : q \in shorter, x \in S}

\* The readable CSV files: nothing at all, or a header and up to MaxLines lines.
CSVFiles == {<<>>} \cup {<<Header>> \o body : body \in SeqsUpTo(CSVLines, MaxLines)}

(***************************************************************************)
(* The state.  config and stateFile are the files on disk; the rest is one *)
(* run's memory (pc is its place in main), its commands to the router      *)
(* (sent) and its log lines (logs).  runs, loaded, startFile, fresh and    *)
(* served record history: the runs started, what a run loaded and found on *)
(* disk, whether the first run found no state.json, and per address the    *)
(* outcome of each of its counted occurrences.  call is a call of          *)
(* getTimeout taken alone, with its result; io lists a run's calls of      *)
(* loadState and saveState, each with the processes that had saved then.   *)
(***************************************************************************)
VARIABLES config, stateFile, pc, cfg, state, ips, idx, sent, logs,
          runs, loaded, startFile, fresh, served, call, io

vars == <<config, stateFile, pc, cfg, state, ips, idx, sent, logs,
          runs, loaded, startFile, fresh, served, call, io>>

\* call holds one call of a function on its own: none in the runs of Spec.
NoCall ==
    [fn |-> "", count |-> 0, hours |-> <<>>, done |-> FALSE, result |-> "", list |-> ""]

NoFile == FileOf("absent", <<>>)

NoConfig == [Escalation |-> <<>>, Whitelist |-> <<>>, ListTemp |-> "", ListPerm |-> ""]

\* No run has started.
InitRuns ==
    /\ pc = [p \in Procs |-> "idle"]
    /\ cfg = [p \in Procs |-> NoConfig]
    /\ state = [p \in Procs |-> NilState]
    /\ loaded = [p \in Procs |-> NilState]
    /\ startFile = [p \in Procs |-> NoFile]
    /\ ips = [p \in Procs |-> <<>>]
    /\ idx = [p \in Procs |-> 1]
    /\ sent = [p \in Procs |-> <<>>]
    /\ logs = [p \in Procs |-> <<>>]
    /\ runs = 0
    /\ served = EmptyMap
    /\ io = [p \in Procs |-> <<>>]

Init ==
    /\ config \in Configs
    /\ stateFile \in InitFiles
    /\ fresh = (stateFile.kind = "absent")
    /\ call = NoCall
    /\ InitRuns

\* A call of loadState or saveState by process p, and the other processes
\* that have saved and not yet gone at the time of the call.
Event(op, p) == [op |-> op, after |-> {q \in Procs \ {p} : pc[q] = "done"}]

\* A log line.
LogLine(kind, ip, attempt, timeout) ==
    [kind |-> kind, ip |-> ip, attempt |-> attempt, timeout |-> timeout]

(***************************************************************************)
(* main, up to the loop.                                                   *)
(***************************************************************************)
\* A process starts.
StartRun(p) ==
    /\ pc[p] = "idle"
    /\ runs < MaxRuns
    /\ runs' = runs + 1
    /\ pc' = [pc EXCEPT ![p] = "config"]
    /\ startFile' = [startFile EXCEPT ![p] = stateFile]
    /\ UNCHANGED <<call, io, config, stateFile, cfg, state, ips, idx, sent, logs,
                   loaded, fresh, served>>

\* The scheduling the design presumes: one run at a time.
Start(p) ==
    /\ \A q \in Procs \ {p} : pc[q] = "idle"
    /\ StartRun(p)

\* The process is gone (main returned, log.Fatalf, or a panic), and its
\* memory with it.
Exit(p) ==
    /\ pc[p] \in {"done", "fatal", "panic"}
    /\ pc' = [pc EXCEPT ![p] = "idle"]
    /\ cfg' = [cfg EXCEPT ![p] = NoConfig]
    /\ state' = [state EXCEPT ![p] = NilState]
    /\ loaded' = [loaded EXCEPT ![p] = NilState]
    /\ ips' = [ips EXCEPT ![p] = <<>>]
    /\ idx' = [idx EXCEPT ![p] = 1]
    /\ sent' = [sent EXCEPT ![p] = <<>>]
    /\ logs' = [logs EXCEPT ![p] = <<>>]
    /\ startFile' = [startFile EXCEPT ![p] = NoFile]
    /\ io' = [q \in Procs |->
                 IF q = p THEN <<>>
                 ELSE [k \in 1..Len(io[q]) |-> [io[q][k] EXCEPT !.after = @ \ {p}]]]
    /\ UNCHANGED <<call, config, stateFile, runs, fresh, served>>

\* An exit path that saves the state on its way out.
FatalSaves(p, msg) ==
    /\ pc' = [pc EXCEPT ![p] = "fatal"]
    /\ logs' = [logs EXCEPT ![p] = Append(@, LogLine("fatal", msg, 0, ""))]
    /\ stateFile' = saveState(state[p])
    /\ io' = [io EXCEPT ![p] = Append(@, Event("save", p))]
    /\ UNCHANGED <<call, config, cfg, state, ips, idx, sent,
                   runs, loaded, startFile, fresh, served>>

\* log.Fatalf(msg): the line is logged and the run stops here.
Fatal(p, msg) ==
    /\ pc' = [pc EXCEPT ![p] = "fatal"]
    /\ logs' = [logs EXCEPT ![p] = Append(@, LogLine("fatal", msg, 0, ""))]
    /\ UNCHANGED <<call, io, config, stateFile, cfg, state, ips, idx, sent,
                   runs, loaded, startFile, fresh, served>>

LoadConfig(p) ==
    /\ pc[p] = "config"
    /\ \/ /\ cfg' = [cfg EXCEPT ![p] = config]
          /\ pc' = [pc EXCEPT ![p] = "state"]
          /\ UNCHANGED <<call, io, config, stateFile, state, ips, idx, sent, logs,
                         runs, loaded, startFile, fresh, served>>
       \/ Fatal(p, "Config load error")

LoadState(p) ==
    /\ pc[p] = "state"
    /\ state' = [state EXCEPT ![p] = loadState(stateFile)]
    /\ loaded' = [loaded EXCEPT ![p] = loadState(stateFile)]
    /\ pc' = [pc EXCEPT ![p] = "csv"]
    /\ io' = [io EXCEPT ![p] = Append(@, Event("load", p))]
    /\ UNCHANGED <<call, config, stateFile, cfg, ips, idx, sent, logs,
                   runs, startFile, fresh, served>>

\* loadIPsFromCSV(csvFile), the file being one of files or unreadable.
ReadCSV(p, files) ==
    /\ pc[p] = "csv"
    /\ \/ \E lines \in files :
             /\ ips' = [ips EXCEPT ![p] = loadIPsFromCSV(lines)]
             /\ pc' = [pc EXCEPT ![p] = "dial"]
             /\ UNCHANGED <<call, io, config, stateFile, cfg, state, idx, sent, logs,
                            runs, loaded, startFile, fresh, served>>
       \/ Fatal(p, "CSV error")

LoadCSV(p) == ReadCSV(p, CSVFiles)

Dial(p) ==
    /\ pc[p] = "dial"
    /\ \/ /\ pc' = [pc EXCEPT ![p] = "loop"]
          /\ UNCHANGED <<call, io, config, stateFile, cfg, state, ips, idx, sent, logs,
                         runs, loaded, startFile, fresh, served>>
       \/ Fatal(p, "Mikrotik error")

(***************************************************************************)
(* The loop body of main on one token.  Its result: where the run goes     *)
(* (the next token, or a panic), the offense record, the command sent to   *)
(* the router with the router's answer (at most one), the log lines, and   *)
(* what the occurrence was served ("" when it is not counted).             *)
(***************************************************************************)
NIL_PANIC == "panic: assignment to entry in nil map"

Command(list, ip, timeout, ok, count, pos) ==
    [list |-> list, address |-> ip, timeout |-> timeout, ok |-> ok,
     count |-> count, pos |-> pos]

Outcome(next, st, cmds, lines, got) ==
    [pc |-> next, state |-> st, sent |-> cmds, logs |-> lines, served |-> got]

\* state[ip] = 1 for state[ip]++.
IncrementReset(st, ip) == [st EXCEPT !.m = Put(st.m, ip, 1)]

\* An increment that raises every count of the map.
IncrementAll(st, ip) ==
    [st EXCEPT !.m = [x \in DOMAIN st.m \cup {ip} |-> Lookup(st.m, x) + 1]]

\* state[ip]++
Increment(st, ip) == [st EXCEPT !.m = Put(st.m, ip, Lookup(st.m, ip) + 1)]

\* The list a block goes to.
ListFor(c, timeout) == IF timeout = PERMANENT THEN c.ListPerm ELSE c.ListTemp

\* A failure handler that also takes the increment back.
OnBlockFailedRollback(out, ip) ==
    [out EXCEPT !.logs = Append(@, LogLine("failed", ip, 0, "")),
                !.state.m = Put(@, ip, Lookup(@, ip) - 1)]

\* if err != nil { log.Printf("Block failed ...") }: only a log line.
OnBlockFailed(out, ip) ==
    [out EXCEPT !.logs = Append(@, LogLine("failed", ip, 0, ""))]

\* log.Fatalf for log.Printf and continue on an invalid token.
OnInvalidFatal(st) ==
    Outcome("fatal", st, <<>>, <<LogLine("fatal", "Invalid IP", 0, "")>>, "")

\* if ip == "" { log.Printf("Invalid IP skipped"); continue }
OnInvalid(st) == Outcome("loop", st, <<>>, <<LogLine("invalid", "", 0, "")>>, "")

LoopBody(c, st, raw, pos, ok) ==
    LET ip == sanitizeIP(raw)
        st1 == Increment(st, ip)
        count == Lookup(st1.m, ip)
        timeout == getTimeout(count, c.Escalation)
        cmd == Command(ListFor(c, timeout), ip, timeout, ok, count, pos)
    IN  IF ip = ""
        THEN OnInvalid(st)
        ELSE IF isWhitelisted(ip, c.Whitelist)
        THEN Outcome("loop", st, <<>>, <<LogLine("skip", ip, 0, "")>>, "")
        ELSE IF st.nil
        THEN Outcome("panic", st, <<>>, <<>>, NIL_PANIC)
        ELSE IF timeout = INDEX_PANIC
        THEN Outcome("panic", st1, <<>>, <<>>, INDEX_PANIC)
        ELSE IF timeout = PERMANENT
        THEN Outcome("loop", st1, <<cmd>>, <<LogLine("permanent", ip, 0, "")>>, timeout)
        ELSE LET out == Outcome("loop", st1, <<cmd>>,
                                <<LogLine("timed", ip, count, timeout)>>, timeout)
             IN  IF ok THEN out ELSE OnBlockFailed(out, ip)

\* A loop body that saves the state after each token.
SaveInLoop(p, st) ==
    /\ stateFile' = saveState(st)
    /\ io' = [io EXCEPT ![p] = Append(@, Event("save", p))]

\* The loop body calls neither loadState nor saveState.
NoFileAccess(p, st) == UNCHANGED <<stateFile, io>>

\* One iteration of the loop; ok is the router's answer to the command.
ProcessToken(p) ==
    /\ pc[p] = "loop"
    /\ idx[p] <= Len(ips[p])
    /\ \E ok \in BOOLEAN :
          LET out == LoopBody(cfg[p], state[p], ips[p][idx[p]], idx[p], ok)
              ip == sanitizeIP(ips[p][idx[p]])
          IN  /\ pc' = [pc EXCEPT ![p] = out.pc]
              /\ state' = [state EXCEPT ![p] = out.state]
              /\ sent' = [sent EXCEPT ![p] = @ \o out.sent]
              /\ logs' = [logs EXCEPT ![p] = @ \o out.logs]
              /\ idx' = [idx EXCEPT ![p] = IF out.pc = "loop" THEN @ + 1 ELSE @]
              /\ served' = IF out.served = "" THEN served
                           ELSE Put(served, ip, Append(Lookup2(served, ip), out.served))
              /\ NoFileAccess(p, out.state)
    /\ UNCHANGED <<call, config, cfg, ips, runs, loaded, startFile, fresh>>

\* A save that reads state.json again and adds the run's increments to it.
SaveStateMerging(p) ==
    /\ pc[p] = "loop"
    /\ idx[p] > Len(ips[p])
    /\ LET disk == loadState(stateFile).m
           keys == DOMAIN disk \cup DOMAIN state[p].m
           merged == [a \in keys |-> Lookup(disk, a) + Lookup(state[p].m, a)
                                        - Lookup(loaded[p].m, a)]
       IN  stateFile' = saveState([state[p] EXCEPT !.m = merged])
    /\ pc' = [pc EXCEPT ![p] = "done"]
    /\ io' = [io EXCEPT ![p] = Append(@, Event("save", p))]
    /\ UNCHANGED <<call, config, cfg, state, ips, idx, sent, logs,
                   runs, loaded, startFile, fresh, served>>

\* After the loop: saveState, and main returns.
SaveState(p) ==
    /\ pc[p] = "loop"
    /\ idx[p] > Len(ips[p])
    /\ stateFile' = saveState(state[p])
    /\ pc' = [pc EXCEPT ![p] = "done"]
    /\ io' = [io EXCEPT ![p] = Append(@, Event("save", p))]
    /\ UNCHANGED <<call, config, cfg, state, ips, idx, sent, logs,
                   runs, loaded, startFile, fresh, served>>

\* The runs of Spec come one after the other, in one process.
Cron == {"r1"}

Next ==
    \E p \in Cron :
        \/ Start(p)
        \/ Exit(p)
        \/ LoadConfig(p)
        \/ LoadState(p)
        \/ LoadCSV(p)
        \/ Dial(p)
        \/ ProcessToken(p)
        \/ SaveState(p)

Spec == Init /\ [][Next]_vars

(***************************************************************************)
(* Runs that overlap: nothing in main keeps a second process from starting *)
(* while the first is at work (no lock on state.json, no pid file).  Two   *)
(* processes, the default configuration, and batches of attackers only.    *)
(***************************************************************************)
RaceConfigs == {c \in Configs : c.Escalation = <<1, 3, 7>>}

RaceInitFiles == {f \in InitFiles : f.kind = "absent" \/ Unmarshal(f.data).m = [a \in {AddrA} |-> 3]}

RaceCSVFiles ==
    {<<Header>> \o body : body \in SeqsUpTo({<<AddrA>>}, MaxLines) \cup {<< <<AddrB>> >>}}

InitRace ==
    /\ config \in RaceConfigs
    /\ stateFile \in RaceInitFiles
    /\ fresh = (stateFile.kind = "absent")
    /\ call = NoCall
    /\ InitRuns

NextRace ==
    \E p \in Procs :
        \/ StartRun(p)
        \/ Exit(p)
        \/ LoadConfig(p)
        \/ LoadState(p)
        \/ ReadCSV(p, RaceCSVFiles)
        \/ Dial(p)
        \/ ProcessToken(p)
        \/ SaveState(p)

SpecRace == InitRace /\ [][NextRace]_vars

(***************************************************************************)
(* getTimeout on its own: any count and any schedule of the bounded sets,  *)
(* among them hours a config.env can hold that the default one does not    *)
(* (0 for a value strconv.Atoi rejects, three digits, a negative number),  *)
(* and the list main puts the address on for the timeout returned.         *)
(***************************************************************************)
HourValues == {-5, 0, 1, 3, 7, 12, 100}

Schedules == SeqsUpTo(HourValues, MaxSchedule)

Counts == -1..MaxCount

InitDecide ==
    /\ call \in {[fn |-> "getTimeout", count |-> c, hours |-> h, done |-> FALSE,
                  result |-> "", list |-> ""] : c \in Counts, h \in Schedules}
    /\ config \in Configs
    /\ stateFile = NoFile
    /\ fresh = TRUE
    /\ InitRuns

Decide ==
    /\ call.fn = "getTimeout"
    /\ ~call.done
    /\ LET timeout == getTimeout(call.count, call.hours)
       IN  call' = [call EXCEPT !.done = TRUE,
                                !.result = timeout,
                                !.list = IF timeout = INDEX_PANIC THEN ""
                                         ELSE ListFor(config, timeout)]
    /\ UNCHANGED <<io, config, stateFile, pc, cfg, state, ips, idx, sent, logs,
                   runs, loaded, startFile, fresh, served>>

NextDecide == Decide

SpecDecide == InitDecide /\ [][NextDecide]_vars

(***************************************************************************)
(* saveState and loadState on their own: a map in memory is saved over     *)
(* whatever state.json was, and the file is loaded back.  The counts are   *)
(* of one, two and three characters, some with a sign.                     *)
(***************************************************************************)
RoundTripCounts == {-12, -1, 0, 1, 9, 10, 105}

Records ==
    {NilState} \cup
    {MakeState(m) : m \in UNION {[K -> RoundTripCounts] : K \in SUBSET {AddrA, AddrB, AddrW}}}

InitRoundTrip ==
    /\ config = NoConfig
    /\ stateFile \in InitFiles
    /\ fresh = FALSE
    /\ call = NoCall
    /\ pc = [p \in Procs |-> IF p \in Cron THEN "save" ELSE "idle"]
    /\ cfg = [p \in Procs |-> NoConfig]
    /\ \E s \in Records : state = [p \in Procs |-> IF p \in Cron THEN s ELSE NilState]
    /\ loaded = [p \in Procs |-> NilState]
    /\ startFile = [p \in Procs |-> NoFile]
    /\ ips = [p \in Procs |-> <<>>]
    /\ idx = [p \in Procs |-> 1]
    /\ sent = [p \in Procs |-> <<>>]
    /\ logs = [p \in Procs |-> <<>>]
    /\ runs = 0
    /\ served = EmptyMap
    /\ io = [p \in Procs |-> <<>>]

Save(p) ==
    /\ pc[p] = "save"
    /\ stateFile' = saveState(state[p])
    /\ pc' = [pc EXCEPT ![p] = "load"]
    /\ io' = [io EXCEPT ![p] = Append(@, Event("save", p))]
    /\ UNCHANGED <<call, config, cfg, state, ips, idx, sent, logs,
                   runs, loaded, startFile, fresh, served>>

Load(p) ==
    /\ pc[p] = "load"
    /\ loaded' = [loaded EXCEPT ![p] = loadState(stateFile)]
    /\ pc' = [pc EXCEPT ![p] = "loaded"]
    /\ io' = [io EXCEPT ![p] = Append(@, Event("load", p))]
    /\ UNCHANGED <<call, config, stateFile, cfg, state, ips, idx, sent, logs,
                   runs, startFile, fresh, served>>

NextRoundTrip == \E p \in Cron : Save(p) \/ Load(p)

SpecRoundTrip == InitRoundTrip /\ [][NextRoundTrip]_vars

(***************************************************************************)
(* What the claims are stated with: the decimal digits of a number, and    *)
(* hours written with at least two digits.                                 *)
(***************************************************************************)
Digit == <<"0", "1", "2", "3", "4", "5", "6", "7", "8", "9">>

RECURSIVE Decimal(_)
Decimal(n) ==
    IF n < 0 THEN "-" \o Decimal(-n)
    ELSE IF n < 10 THEN Digit[n + 1]
    ELSE Decimal(n \div 10) \o Digit[(n % 10) + 1]

ZeroPad2(text) == IF Len(text) < 2 THEN "0" \o text ELSE text

\* HH:00:00 for h hours.
Timed(h) == ZeroPad2(Decimal(h)) \o ":00:00"

(***************************************************************************)
(* What state.json says: its keys, and the count it gives an address (0    *)
(* for none), read off the text at "address": number.                      *)
(***************************************************************************)
RECURSIVE NumberFrom(_, _, _)
NumberFrom(text, j, n) ==
    IF j <= Len(text) /\ \E d \in 1..10 : Digit[d] = text[j]
    THEN NumberFrom(text, j + 1, 10 * n + (CHOOSE d \in 1..10 : Digit[d] = text[j]) - 1)
    ELSE n

TextOf(file) == IF file.kind = "file" THEN file.data ELSE <<>>

KeyPlaces(text) ==
    {i \in 1..(Len(text) - 4) :
        text[i] = QUOTE /\ text[i + 2] = QUOTE /\ text[i + 3] = ":"}

KeysOnDisk(file) == {TextOf(file)[i + 1] : i \in KeyPlaces(TextOf(file))}

OnDisk(file, a) ==
    LET text == TextOf(file)
        at == {i \in KeyPlaces(text) : text[i + 1] = a}
        i == CHOOSE k \in at : TRUE
        j == IF text[i + 4] = " " THEN i + 5 ELSE i + 4
    IN  IF at = {} THEN 0
        ELSE IF text[j] = "-" THEN -NumberFrom(text, j + 1, 0)
        ELSE NumberFrom(text, j, 0)

\* state.json is a file that says m, no more and no less.
Holds(file, m) ==
    /\ file.kind = "file"
    /\ KeysOnDisk(file) = DOMAIN m
    /\ \A a \in DOMAIN m : OnDisk(file, a) = m[a]

(***************************************************************************)
(* C3.  For every count c with 1 <= c <= len(schedule), getTimeout returns *)
(* schedule[c-1] hours as HH:00:00, the hours zero-padded to two digits    *)
(* (two digits exactly for 0..99 hours): [1,3,7] and c = 2 give 03:00:00.  *)
(***************************************************************************)
C3_TimedTier ==
    (call.done /\ 1 <= call.count /\ call.count <= Len(call.hours)) =>
        /\ call.result = Timed(call.hours[call.count])
        /\ (call.hours[call.count] \in 0..99 => Len(call.result) = 8)
        /\ (call.hours = <<1, 3, 7>> /\ call.count = 2 => call.result = "03:00:00")

C3_Witness ==
    /\ call.done
    /\ call.hours = <<1, 3, 7>>
    /\ call.count = 2
    /\ call.result = "03:00:00"

(***************************************************************************)
(* C4.  For every count c > len(schedule), getTimeout returns the          *)
(* permanent sentinel "0", whatever c is; with an empty schedule already   *)
(* for c = 1, the first offense.                                           *)
(***************************************************************************)
C4_PermanentBeyondSchedule ==
    (call.done /\ call.count > Len(call.hours)) => call.result = "0"

C4_Witness ==
    /\ call.done
    /\ call.hours = <<1, 3, 7>>
    /\ call.count = 5
    /\ call.result = "0"

(***************************************************************************)
(* A canonical address matches a whitelist entry: it is string-equal to an *)
(* entry that is no CIDR network, or a CIDR entry's network contains it.   *)
(***************************************************************************)
WhitelistMatch(a, wl) ==
    \E k \in 1..Len(wl) :
        \/ ~Contains(wl[k], SLASH) /\ wl[k] = <<a>>
        \/ /\ Contains(wl[k], SLASH)
           /\ ParseCIDR(wl[k]).ok
           /\ CIDRContains(ParseCIDR(wl[k]), ParseIP(a))

\* Process p takes a step of its run on the token at idx[p].
Processes(p) ==
    /\ pc[p] = "loop"
    /\ idx[p] <= Len(ips[p])
    /\ (pc'[p] # pc[p] \/ idx'[p] # idx[p])

(***************************************************************************)
(* C1.  Processing a token whose canonical address matches a whitelist     *)
(* entry increments no offense count and sends no block command, whatever  *)
(* the state loaded and the token's place in the batch: the step only      *)
(* logs the skip and goes on to the next token.                            *)
(***************************************************************************)
C1_WhitelistedUntouched ==
    [][\A p \in Procs :
          (/\ Processes(p)
           /\ sanitizeIP(ips[p][idx[p]]) # ""
           /\ WhitelistMatch(sanitizeIP(ips[p][idx[p]]), cfg[p].Whitelist))
          => /\ state' = state
             /\ sent' = sent
             /\ served' = served
             /\ stateFile' = stateFile
             /\ pc'[p] = "loop"
             /\ idx'[p] = idx[p] + 1
             /\ logs'[p] = Append(logs[p],
                                  LogLine("skip", sanitizeIP(ips[p][idx[p]]), 0, ""))]_vars

\* A counted token, then a whitelisted one (inside a CIDR entry): one
\* command, and no count for the whitelisted address.
C1_Witness ==
    \E p \in Procs :
        /\ pc[p] = "loop"
        /\ idx[p] = 3
        /\ sanitizeIP(ips[p][1]) = AddrA
        /\ sanitizeIP(ips[p][2]) = AddrW
        /\ WhitelistMatch(AddrW, cfg[p].Whitelist)
        /\ cfg[p].Escalation = <<1, 3, 7>>
        /\ Len(sent[p]) = 1
        /\ AddrW \notin DOMAIN state[p].m
        /\ logs[p][Len(logs[p])] = LogLine("skip", AddrW, 0, "")

(***************************************************************************)
(* The tokens of a run.  Token k is counted when it is valid and not       *)
(* whitelisted; the loop has taken up the tokens before idx, and the one   *)
(* at idx too when it panicked on it.                                      *)
(***************************************************************************)
Counted(p, k) ==
    /\ sanitizeIP(ips[p][k]) # ""
    /\ ~isWhitelisted(sanitizeIP(ips[p][k]), cfg[p].Whitelist)

TakenUp(p) ==
    IF pc[p] = "panic" THEN 1..idx[p]
    ELSE IF pc[p] \in {"loop", "done"} THEN 1..(idx[p] - 1)
    ELSE {}

\* The counted occurrences of address a among the tokens in K.
Occurrences(p, a, K) ==
    Cardinality({k \in K : Counted(p, k) /\ sanitizeIP(ips[p][k]) = a})

\* The commands of sent[p] before the j-th that name the same address.
EarlierFor(p, j) ==
    Cardinality({i \in 1..(j - 1) : sent[p][i].address = sent[p][j].address})

\* The decision for a count under a schedule, as the specification states it.
Decision(count, hours) ==
    IF count > Len(hours) THEN "0" ELSE Timed(hours[count])

(***************************************************************************)
(* C2.  Every valid, non-whitelisted token the run takes up gets exactly   *)
(* one block command, and no other token gets one: the command goes to the *)
(* permanent list when the count after the increment exceeds the schedule  *)
(* length and to the temporary list otherwise, names the canonical         *)
(* address, and carries the decision's timeout.                            *)
(***************************************************************************)
C2_OneCommandPerCountedToken ==
    \A p \in Procs :
        /\ Len(sent[p]) = Cardinality({k \in TakenUp(p) : Counted(p, k)})
        /\ \A j \in 1..Len(sent[p]) :
              LET cmd == sent[p][j]
              IN  /\ cmd.pos \in TakenUp(p)
                  /\ Counted(p, cmd.pos)
                  /\ \A i \in 1..(j - 1) : sent[p][i].pos < cmd.pos
                  /\ cmd.address = sanitizeIP(ips[p][cmd.pos])
                  /\ cmd.timeout = Decision(cmd.count, cfg[p].Escalation)
                  /\ cmd.list = IF cmd.count > Len(cfg[p].Escalation)
                                THEN cfg[p].ListPerm ELSE cfg[p].ListTemp

\* C2 in the runs that do not panic.
C2_UnlessPanic ==
    (\A p \in Procs : pc[p] # "panic") => C2_OneCommandPerCountedToken

(***************************************************************************)
(* C8.  A run that finds a state.json it cannot parse goes on as a run     *)
(* with no prior state: it does not stop, it counts every valid,           *)
(* non-whitelisted address from 1 and sends its command, and it saves the  *)
(* counts at the end.                                                      *)
(***************************************************************************)
C8_UnparsableActsAsEmpty ==
    \A p \in Procs :
        (startFile[p] = FileOf("file", NotJSON) /\ pc[p] \in {"csv", "dial", "loop", "done", "panic"})
        => /\ pc[p] # "panic"
           /\ \A j \in 1..Len(sent[p]) : sent[p][j].count = EarlierFor(p, j) + 1
           /\ Len(sent[p]) = Cardinality({k \in TakenUp(p) : Counted(p, k)})
           /\ pc[p] = "done" =>
                 \A k \in 1..Len(ips[p]) :
                     Counted(p, k) =>
                         OnDisk(stateFile, sanitizeIP(ips[p][k]))
                             = Occurrences(p, sanitizeIP(ips[p][k]), 1..Len(ips[p]))

\* The canonical addresses of the tokens of a run ("" for an invalid one).
Canonical(p) == [k \in 1..Len(ips[p]) |-> sanitizeIP(ips[p][k])]

\* The addresses a run has to do with.
Addresses(p) ==
    (KeysOnDisk(stateFile) \cup DOMAIN loaded[p].m
        \cup {sanitizeIP(ips[p][k]) : k \in 1..Len(ips[p])}) \ {""}

\* The commands of sent[p] that name address a.
CommandsFor(p, a) == Cardinality({j \in 1..Len(sent[p]) : sent[p][j].address = a})

(***************************************************************************)
(* C5.  Counts are durable across runs (one run at a time): a run loads    *)
(* what is on disk, and when it completes, the persisted count of every    *)
(* address is the count it loaded plus the valid, non-whitelisted          *)
(* occurrences of the address in its batch.  So an address whose persisted *)
(* count equals the schedule length (3 of a 3-tier schedule) gets, at its  *)
(* next occurrence, the count above it (4) and a permanent command on the  *)
(* permanent list.                                                         *)
(***************************************************************************)
C5_DurableCounts ==
    \A p \in Procs :
        /\ (pc[p] \in {"csv", "dial", "loop", "done"} /\ ~loaded[p].nil)
              => \A a \in Addresses(p) :
                    Lookup(loaded[p].m, a) = OnDisk(startFile[p], a)
        /\ pc[p] = "done"
              => \A a \in Addresses(p) :
                    OnDisk(stateFile, a)
                        = Lookup(loaded[p].m, a) + Occurrences(p, a, 1..Len(ips[p]))
        /\ \A k \in TakenUp(p) :
              (/\ Counted(p, k)
               /\ ~loaded[p].nil
               /\ Lookup(loaded[p].m, sanitizeIP(ips[p][k])) = Len(cfg[p].Escalation)
               /\ Occurrences(p, sanitizeIP(ips[p][k]), 1..(k - 1)) = 0)
              => /\ \E j \in 1..Len(sent[p]) :
                       /\ sent[p][j].pos = k
                       /\ sent[p][j].count = Len(cfg[p].Escalation) + 1
                       /\ sent[p][j].timeout = "0"
                       /\ sent[p][j].list = cfg[p].ListPerm
                 /\ pc[p] = "done"
                       => OnDisk(stateFile, sanitizeIP(ips[p][k])) > Len(cfg[p].Escalation)

\* A second run that loads 3 for one address (and the 1 the first run
\* counted for another) and saves 4 after a permanent command.
C5_Witness ==
    \E p \in Procs :
        /\ pc[p] = "done"
        /\ runs = 2
        /\ cfg[p].Escalation = <<1, 3, 7>>
        /\ Lookup(loaded[p].m, AddrA) = 3
        /\ Lookup(loaded[p].m, AddrB) = 1
        /\ Canonical(p) = <<AddrA>>
        /\ Len(sent[p]) = 1
        /\ sent[p][1].list = "blocked_permanent"
        /\ sent[p][1].timeout = "0"
        /\ OnDisk(stateFile, AddrA) = 4
        /\ OnDisk(stateFile, AddrB) = 1

(***************************************************************************)
(* C6.  Escalation is progressive and never goes back.  In a history that  *)
(* begins with no state.json (one run at a time, each saving for the       *)
(* next), the k-th valid, non-whitelisted occurrence of an address is      *)
(* served tier k of the schedule for k <= len(schedule) and a permanent    *)
(* block after that: 1h, 3h, 7h, then permanent with [1,3,7]; and once     *)
(* served a permanent block, an address is served no timed one.            *)
(***************************************************************************)
DefaultTiers == <<"01:00:00", "03:00:00", "07:00:00">>

C6_ProgressiveEscalation ==
    fresh =>
        \A a \in DOMAIN served :
            \A k \in 1..Len(served[a]) :
                /\ served[a][k] = Decision(k, config.Escalation)
                /\ \A j \in 1..(k - 1) : served[a][j] = "0" => served[a][k] = "0"
                /\ config.Escalation = <<1, 3, 7>>
                      => served[a][k] = IF k <= 3 THEN DefaultTiers[k] ELSE "0"

C6_Witness ==
    /\ fresh
    /\ runs = 2
    /\ config.Escalation = <<1, 3, 7>>
    /\ AddrA \in DOMAIN served
    /\ served[AddrA] = <<"01:00:00", "03:00:00", "07:00:00", "0">>

(***************************************************************************)
(* C7.  Occurrences of one address in one batch are separate events: each  *)
(* command carries the count loaded plus the occurrences so far, its own   *)
(* included, and the decision for that count.  With [1,3,7], no prior      *)
(* state and the same address twice, the first event is attempt 1 with     *)
(* 01:00:00, the second attempt 2 with 03:00:00, and 2 is persisted.       *)
(***************************************************************************)
C7_DuplicatesAreSeparateEvents ==
    \A p \in Procs :
        /\ \A j \in 1..Len(sent[p]) :
              /\ sent[p][j].count
                    = Lookup(loaded[p].m, sent[p][j].address) + EarlierFor(p, j) + 1
              /\ sent[p][j].timeout = Decision(sent[p][j].count, cfg[p].Escalation)
        /\ (/\ pc[p] = "done"
            /\ cfg[p].Escalation = <<1, 3, 7>>
            /\ loaded[p] = MakeState(EmptyMap)
            /\ Canonical(p) = <<AddrA, AddrA>>)
           => /\ Len(sent[p]) = 2
              /\ sent[p][1].count = 1 /\ sent[p][1].timeout = "01:00:00"
              /\ sent[p][2].count = 2 /\ sent[p][2].timeout = "03:00:00"
              /\ \A j \in 1..2 : /\ sent[p][j].address = AddrA
                                 /\ sent[p][j].list = cfg[p].ListTemp
              /\ \E i, j \in 1..Len(logs[p]) :
                    /\ i < j
                    /\ logs[p][i] = LogLine("timed", AddrA, 1, "01:00:00")
                    /\ logs[p][j] = LogLine("timed", AddrA, 2, "03:00:00")
              /\ Holds(stateFile, [a \in {AddrA} |-> 2])

C7_Witness ==
    \E p \in Procs :
        /\ pc[p] = "done"
        /\ cfg[p].Escalation = <<1, 3, 7>>
        /\ loaded[p] = MakeState(EmptyMap)
        /\ ips[p] = << <<AddrA>>, <<AddrA>> >>
        /\ Len(sent[p]) = 2
        /\ sent[p][1].timeout = "01:00:00"
        /\ sent[p][2].timeout = "03:00:00"
        /\ OnDisk(stateFile, AddrA) = 2

(***************************************************************************)
(* C9.  A block command the router fails, timed or permanent, takes no     *)
(* increment back and does not stop the batch: the count in memory stays   *)
(* the loaded one plus the commands sent, the loop goes on to the next     *)
(* token, and a run that gets through its batch has taken up every token   *)
(* and saved the increment of the failed command's address.                *)
(***************************************************************************)
C9_FailedBlockKeepsCount ==
    \A p \in Procs :
        /\ pc[p] \in {"loop", "done"}
              => \A j \in 1..Len(sent[p]) :
                    Lookup(state[p].m, sent[p][j].address)
                        = Lookup(loaded[p].m, sent[p][j].address)
                              + CommandsFor(p, sent[p][j].address)
        /\ \A j \in 1..Len(sent[p]) :
              ~sent[p][j].ok
                  => /\ pc[p] # "fatal"
                     /\ sent[p][j].pos < idx[p]
                     /\ Lookup(state[p].m, sent[p][j].address) >= sent[p][j].count
                     /\ pc[p] = "done"
                           => /\ idx[p] = Len(ips[p]) + 1
                              /\ OnDisk(stateFile, sent[p][j].address)
                                    = Lookup(loaded[p].m, sent[p][j].address)
                                          + CommandsFor(p, sent[p][j].address)

\* A failed permanent command, then a failed timed one, and both counts saved.
C9_Witness ==
    \E p \in Procs :
        /\ pc[p] = "done"
        /\ Lookup(loaded[p].m, AddrA) = 3
        /\ Len(sent[p]) = 2
        /\ sent[p][1].address = AddrA /\ sent[p][1].timeout = "0" /\ ~sent[p][1].ok
        /\ sent[p][2].address = AddrB /\ sent[p][2].timeout = "01:00:00"
        /\ ~sent[p][2].ok
        /\ Holds(stateFile, [a \in {AddrA, AddrB} |-> IF a = AddrA THEN 4 ELSE 1])

(***************************************************************************)
(* C10.  A fatal condition (config.env cannot be loaded, the CSV cannot be *)
(* read, the router cannot be dialled) stops the run before any mutation:  *)
(* no count was incremented, no command was sent, and state.json is as the *)
(* run found it.                                                           *)
(***************************************************************************)
C10_FatalBeforeMutation ==
    \A p \in Procs :
        pc[p] = "fatal"
            => /\ state[p] = loaded[p]
               /\ sent[p] = <<>>
               /\ idx[p] = 1
               /\ stateFile = startFile[p]

\* The CSV cannot be read, after the state was loaded.
C10_Witness ==
    \E p \in Procs :
        /\ pc[p] = "fatal"
        /\ logs[p] = <<LogLine("fatal", "CSV error", 0, "")>>
        /\ loaded[p] = MakeState([a \in {AddrA} |-> 3])
        /\ Holds(stateFile, [a \in {AddrA} |-> 3])

(***************************************************************************)
(* C11.  Round trip: for every count map (the nil one too), saveState      *)
(* followed by loadState of the same path, with no write in between,       *)
(* gives back a map equal to the one saved, whatever the file held before. *)
(***************************************************************************)
C11_RoundTrip ==
    \A p \in Procs : pc[p] = "loaded" => loaded[p] = state[p]

\* Two keys, a count of three characters and a negative one.
C11_Witness ==
    \E p \in Procs :
        /\ pc[p] = "loaded"
        /\ state[p] = MakeState([a \in {AddrA, AddrB} |-> IF a = AddrA THEN 105 ELSE -12])
        /\ loaded[p] = state[p]
        /\ OnDisk(stateFile, AddrA) = 105
        /\ OnDisk(stateFile, AddrB) = -12

\* The lines of a run's log that report an outcome of a token.
OutcomeLines(p) ==
    LET Reports(l) == l.kind \in {"invalid", "skip", "timed", "permanent"}
    IN  SelectSeq(logs[p], Reports)

\* The tokens the loop is through with.
Through(p) == IF pc[p] \in {"loop", "done", "panic"} THEN 1..(idx[p] - 1) ELSE {}

\* The apply-failed lines of a run's log for address a.
FailedLines(p, a) ==
    Cardinality({i \in 1..Len(logs[p]) : logs[p][i] = LogLine("failed", a, 0, "")})

\* The commands of a run for address a that the router failed.
FailedCommands(p, a, lists) ==
    Cardinality({j \in 1..Len(sent[p]) :
                    /\ sent[p][j].address = a
                    /\ ~sent[p][j].ok
                    /\ sent[p][j].list \in lists})

\* Every token the loop is through with has its own line, in input order.
OutcomesLogged(p) ==
    /\ Len(OutcomeLines(p)) = Cardinality(Through(p))
    /\ \A k \in Through(p) :
          LET a == sanitizeIP(ips[p][k])
              line == OutcomeLines(p)[k]
          IN  IF a = "" THEN line.kind = "invalid"
              ELSE IF ~Counted(p, k) THEN line = LogLine("skip", a, 0, "")
              ELSE \E j \in 1..Len(sent[p]) :
                      /\ sent[p][j].pos = k
                      /\ line = IF sent[p][j].timeout = "0"
                                THEN LogLine("permanent", a, 0, "")
                                ELSE LogLine("timed", a, sent[p][j].count,
                                             sent[p][j].timeout)

(***************************************************************************)
(* C12.  Every outcome of a token is reported by a log line of its own     *)
(* kind: rejected, whitelisted, timed block with its attempt and timeout,  *)
(* permanent block; and every command the router fails, timed or           *)
(* permanent, is reported by an apply-failed line for its address.         *)
(***************************************************************************)
C12_EveryOutcomeLogged ==
    \A p \in Procs :
        /\ OutcomesLogged(p)
        /\ \A a \in {sent[p][j].address : j \in 1..Len(sent[p])} :
              FailedLines(p, a) = FailedCommands(p, a, {cfg[p].ListTemp, cfg[p].ListPerm})

\* C12 but for the failed commands to the permanent list.
C12_TimedFailuresLogged ==
    \A p \in Procs :
        /\ OutcomesLogged(p)
        /\ \A a \in {sent[p][j].address : j \in 1..Len(sent[p])} :
              FailedLines(p, a) = FailedCommands(p, a, {cfg[p].ListTemp})

(***************************************************************************)
(* C13.  A token that sanitizeIP rejects (the empty result) increments no  *)
(* count and sends no command, and the batch goes on: the step changes     *)
(* nothing but the log, which gets the warning, and the place in the       *)
(* batch, which moves to the next token; the offense record, the commands, *)
(* the batch and the configuration the later tokens are processed with are *)
(* what they would be had the token not been there.                        *)
(***************************************************************************)
C13_InvalidTokenIsolated ==
    [][\A p \in Procs :
          (Processes(p) /\ sanitizeIP(ips[p][idx[p]]) = "")
          => /\ state' = state
             /\ sent' = sent
             /\ served' = served
             /\ stateFile' = stateFile
             /\ cfg' = cfg
             /\ ips' = ips
             /\ pc'[p] = "loop"
             /\ idx'[p] = idx[p] + 1
             /\ logs'[p] = Append(logs[p], LogLine("invalid", "", 0, ""))]_vars

\* An invalid token, then a valid one that is counted from the loaded count
\* and gets its command.
C13_Witness ==
    \E p \in Procs :
        /\ pc[p] = "done"
        /\ ips[p] = << <<"not-an-ip">>, <<AddrA>> >>
        /\ cfg[p].Escalation = <<1, 3, 7>>
        /\ loaded[p] = MakeState(EmptyMap)
        /\ Len(sent[p]) = 1
        /\ sent[p][1].pos = 2 /\ sent[p][1].count = 1 /\ sent[p][1].address = AddrA
        /\ logs[p][1] = LogLine("invalid", "", 0, "")
        /\ logs[p][2] = LogLine("timed", AddrA, 1, "01:00:00")
        /\ Holds(stateFile, [a \in {AddrA} |-> 1])

\* The calls of loadState and saveState a run has made, in order.
Calls(p) == [k \in 1..Len(io[p]) |-> io[p][k].op]

\* state.json says what the map s holds (null for the nil map).
Says(file, s) ==
    IF s.nil THEN file = FileOf("file", <<"null">>) ELSE Holds(file, s.m)

(***************************************************************************)
(* C14.  A run calls loadState once, before it takes up its first token,   *)
(* and saveState once, after it is through with the last one, never per    *)
(* token: while tokens are processed the state was loaded and is not yet   *)
(* saved and state.json is as the run found it, every increment comes      *)
(* after the load, and a run that got through its batch has loaded once    *)
(* and saved once, and state.json says what its map holds after all the    *)
(* increments.  (A run that stops earlier saves nothing.)                  *)
(***************************************************************************)
C14_LoadOnceSaveOnce ==
    \A p \in Procs :
        /\ Calls(p) \in {<<>>, <<"load">>, <<"load", "save">>}
        /\ pc[p] \in {"idle", "config", "state"}
              => (Calls(p) = <<>> /\ idx[p] = 1 /\ state[p] = NilState)
        /\ pc[p] \in {"csv", "dial", "loop", "panic"} => Calls(p) = <<"load">>
        /\ pc[p] = "fatal" => Calls(p) \in {<<>>, <<"load">>}
        /\ (idx[p] > 1 \/ state[p] # loaded[p]) => Calls(p) # <<>>
        /\ Calls(p) = <<"load">> => stateFile = startFile[p]
        /\ Calls(p) = <<"load", "save">>
              => /\ pc[p] = "done"
                 /\ idx[p] = Len(ips[p]) + 1
                 /\ Says(stateFile, state[p])
        /\ pc[p] = "done" => Calls(p) = <<"load", "save">>

\* A run of two counted tokens that loaded 3 for the first address and
\* saved 4 for it and 1 for the other.
C14_Witness ==
    \E p \in Procs :
        /\ pc[p] = "done"
        /\ Calls(p) = <<"load", "save">>
        /\ Canonical(p) = <<AddrA, AddrB>>
        /\ loaded[p] = MakeState([a \in {AddrA} |-> 3])
        /\ state[p] = MakeState([a \in {AddrA, AddrB} |-> IF a = AddrA THEN 4 ELSE 1])
        /\ Holds(stateFile, state[p].m)
        /\ Len(sent[p]) = 2

\* The counts a run has incremented are those that differ from the loaded ones.
Incremented(p) ==
    {a \in DOMAIN state[p].m : state[p].m[a] # Lookup(loaded[p].m, a)}

\* What getTimeout was called with has left its mark: the count of every
\* command, the incremented counts of the map, and an index panic.
DecisionsTotal(p) ==
    /\ \A j \in 1..Len(sent[p]) :
          /\ sent[p][j].count >= 1
          /\ sent[p][j].timeout = Decision(sent[p][j].count, cfg[p].Escalation)
    /\ \A a \in Incremented(p) : state[p].m[a] >= 1
    /\ pc[p] = "panic" => state[p].nil

(***************************************************************************)
(* C15.  Every call of getTimeout a run makes has count >= 1, the          *)
(* increment coming first, whatever map loadState returned and whatever    *)
(* the schedule: the call returns a timed or the permanent outcome and     *)
(* never indexes the schedule out of its bounds (the run does not panic in *)
(* getTimeout).                                                            *)
(***************************************************************************)
C15_DecisionTotal == \A p \in Procs : DecisionsTotal(p)

\* C15 for the runs that load no negative count.
C15_UnlessNegativeLoaded ==
    \A p \in Procs :
        (\A a \in DOMAIN loaded[p].m : loaded[p].m[a] >= 0) => DecisionsTotal(p)

(***************************************************************************)
(* C16.  The permanent sentinel "0" is no timed value, for every schedule, *)
(* one with an hour count of 0 too: getTimeout returns "0" exactly when    *)
(* count > len(schedule), so main's test timeout == "0" puts the address   *)
(* on the permanent list exactly then, and on the temporary list for every *)
(* timed outcome.                                                          *)
(***************************************************************************)
C16_SentinelDistinct ==
    call.done =>
        /\ (call.result = "0") <=> (call.count > Len(call.hours))
        /\ (1 <= call.count /\ call.count <= Len(call.hours))
              => /\ call.result = Timed(call.hours[call.count])
                 /\ Len(call.result) >= 8
                 /\ call.list = config.ListTemp
        /\ call.count > Len(call.hours) => call.list = config.ListPerm
        /\ config.ListTemp # config.ListPerm

\* An hour count of 0 (ESCALATE_1 that strconv.Atoi rejects): a timed block
\* of 00:00:00 on the temporary list.
C16_Witness ==
    /\ call.done
    /\ call.hours = <<0, 3>>
    /\ call.count = 1
    /\ call.result = "00:00:00"
    /\ call.list = "blocked_attackers"

(***************************************************************************)
(* C17.  The increment is the only way the offense record of a run changes *)
(* once it is loaded.  A step of the loop on a token changes at most the   *)
(* count of the token's canonical address, by +1 exactly, and leaves every *)
(* other count, the whitelist and the schedule as they were; a rejected or *)
(* a whitelisted token leaves the whole record as it was; and no step but  *)
(* the load, a step of the loop, and the end of the process changes the    *)
(* record.                                                                 *)
(***************************************************************************)
C17_IncrementOnly ==
    [][\A p \in Procs :
          /\ Processes(p) =>
                LET a == sanitizeIP(ips[p][idx[p]])
                    old == state[p].m
                    new == state'[p].m
                IN  /\ cfg' = cfg
                    /\ state'[p].nil = state[p].nil
                    /\ DOMAIN old \subseteq DOMAIN new
                    /\ DOMAIN new \subseteq DOMAIN old \cup {a}
                    /\ \A b \in DOMAIN new \ {a} : new[b] = old[b]
                    /\ Lookup(new, a) \in {Lookup(old, a), Lookup(old, a) + 1}
                    /\ (a = "" \/ WhitelistMatch(a, cfg[p].Whitelist))
                          => state'[p] = state[p]
                    /\ ~Counted(p, idx[p]) => state'[p] = state[p]
                    /\ (Counted(p, idx[p]) /\ ~state[p].nil)
                          => Lookup(new, a) = Lookup(old, a) + 1
                    /\ \A q \in Procs \ {p} : state'[q] = state[q]
          /\ state'[p] # state[p]
                => (Processes(p) \/ pc[p] = "state" \/ pc'[p] = "idle")]_vars

\* A step on an address the map did not hold, beside a loaded count that
\* stays as it was.
C17_Witness ==
    \E p \in Procs :
        /\ pc[p] = "loop"
        /\ idx[p] = 2
        /\ sanitizeIP(ips[p][1]) = AddrB
        /\ loaded[p] = MakeState([a \in {AddrA} |-> 3])
        /\ state[p] = MakeState([a \in {AddrA, AddrB} |-> IF a = AddrA THEN 3 ELSE 1])

\* The tokens a run is through with have each ended in one outcome, taken
\* in input order: rejected or whitelisted (no command), or counted and
\* then a timed or a permanent block (one command).
TokensEnded(p) ==
    /\ OutcomesLogged(p)
    /\ Len(sent[p]) = Cardinality({k \in Through(p) : Counted(p, k)})
    /\ \A i, j \in 1..Len(sent[p]) : i < j => sent[p][i].pos < sent[p][j].pos
    /\ \A j \in 1..Len(sent[p]) :
          /\ sent[p][j].pos \in Through(p)
          /\ sent[p][j].list = IF sent[p][j].timeout = "0" THEN cfg[p].ListPerm
                               ELSE cfg[p].ListTemp
    /\ pc[p] = "done" => (idx[p] = Len(ips[p]) + 1 /\ Calls(p) = <<"load", "save">>)

(***************************************************************************)
(* C18.  Every token of a batch is processed once, in input order, and     *)
(* ends in one of the outcomes Rejected, Whitelisted, TimedBlock or        *)
(* PermanentBlock (Received -> Normalized | Rejected, Normalized ->        *)
(* Whitelisted | Counted, Counted -> TimedBlock | PermanentBlock), and the *)
(* run gets to the end of its batch and saves: no run stops on a token it  *)
(* has taken up.                                                           *)
(***************************************************************************)
C18_TokenStateMachine ==
    \A p \in Procs :
        /\ pc[p] # "panic"
        /\ TokensEnded(p)

\* C18 for the tokens a run is through with, whether or not it panics later.
C18_TokensThrough == \A p \in Procs : TokensEnded(p)

\* A step of a run takes up the next token or none; the place in the batch
\* never moves back while the process lives.
C18_InOrder ==
    [][\A p \in Procs :
          \/ idx'[p] = idx[p]
          \/ idx'[p] = idx[p] + 1 /\ Processes(p)
          \/ pc'[p] = "idle"]_vars

\* A run in the loop has its next step at hand: a token to take up, or the
\* save after the last one.
C18_LoopGoesOn ==
    \A p \in Procs : pc[p] = "loop" => idx[p] \in 1..(Len(ips[p]) + 1)

\* Two runs have both saved, q last (p had saved when q saved).
SavedInTurn(p, q) ==
    /\ p # q
    /\ pc[p] = "done"
    /\ pc[q] = "done"
    /\ p \in io[q][2].after

\* They overlapped: q loaded before p saved, so both loaded before either
\* saved.
Overlapped(p, q) == SavedInTurn(p, q) /\ p \notin io[q][1].after

\* They came one after the other, with no write in between: q started and
\* loaded after p had saved, and found state.json as p had left it.
OneAfterTheOther(p, q) ==
    /\ SavedInTurn(p, q)
    /\ p \in io[q][1].after
    /\ Says(startFile[q], state[p])

\* The counted occurrences of address a in the whole batch of a run.
Counts1(p, a) == Occurrences(p, a, 1..Len(ips[p]))

(***************************************************************************)
(* C19.  Runs on one state.json are not serialized.  When two runs overlap *)
(* (both load before either saves), state.json ends as the run that saves  *)
(* last writes it, its loaded counts plus its own increments, and the      *)
(* increments of the other run are lost: for an address the other run      *)
(* counted, the final count is below the prior count plus all the counted  *)
(* occurrences.  When the second run starts after the first has saved (and *)
(* nothing else writes in between), no increment is lost.                  *)
(***************************************************************************)
C19_LastSaverWins ==
    \A p, q \in Procs :
        /\ Overlapped(p, q) =>
              /\ Says(stateFile, state[q])
              /\ \A a \in Addresses(p) \cup Addresses(q) :
                    /\ OnDisk(stateFile, a) = Lookup(loaded[q].m, a) + Counts1(q, a)
                    /\ (Counts1(p, a) > 0 /\ loaded[p] = loaded[q])
                          => OnDisk(stateFile, a)
                                < Lookup(loaded[p].m, a) + Counts1(p, a) + Counts1(q, a)
        /\ OneAfterTheOther(p, q) =>
              /\ loaded[q] = state[p]
              /\ \A a \in Addresses(p) \cup Addresses(q) :
                    OnDisk(stateFile, a)
                        = Lookup(loaded[p].m, a) + Counts1(p, a) + Counts1(q, a)

\* Two overlapping runs that each count the same address once, from no
\* prior state: two occurrences served, and a count of 1 on disk.
C19_Witness ==
    \E p, q \in Procs :
        /\ Overlapped(p, q)
        /\ loaded[p] = MakeState(EmptyMap)
        /\ loaded[q] = MakeState(EmptyMap)
        /\ Canonical(p) = <<AddrA>>
        /\ Canonical(q) = <<AddrA>>
        /\ Len(served[AddrA]) = 2
        /\ Holds(stateFile, [a \in {AddrA} |-> 1])

\* Two runs one after the other, both still there: nothing lost.
C19_WitnessInTurn ==
    \E p, q \in Procs :
        /\ OneAfterTheOther(p, q)
        /\ Canonical(p) = <<AddrA>>
        /\ Canonical(q) = <<AddrA>>
        /\ Holds(stateFile, [a \in {AddrA} |-> 2])

=============================================================================
